---- MODULE Spec2Model ----
(***************************************************************************)
(* A model of aurion_rs: the session engine (src/aurion.rs), the menu tree *)
(* (src/menu) and the event conversion (src/event).                        *)
(*                                                                         *)
(* Strings are sequences of one-character strings.  Option<T> is a         *)
(* sequence of length 0 (None) or 1 (Some).  Every state of the model is   *)
(* a point where the program is idle, has aborted (a panic), or is         *)
(* suspended on a network await; one action is the code that runs between  *)
(* two such points.                                                        *)
(***************************************************************************)
EXTENDS Integers, Sequences, FiniteSets, TLC

\* ------------------------------------------------------------------ bounds
\* Size of the node arena: nodes ever created in one session.
MaxNodes == 4
\* List items in one sidebar fragment.
MaxItems == 2
\* Raw records in one schedule batch.
MaxEvents == 2
\* Ids in one load_menu_nodes call.
MaxLoad == 2

\* ----------------------------------------------------------------- strings
None == <<>>
Some(v) == <<v>>
IsNone(o) == o = <<>>
Unwrap(o) == o[1]

\* The 'a' with grave accent of the titles: one char, two bytes in UTF-8.
AGrave == "a_grave"
Utf8Len(c) == IF c = AGrave THEN 2 ELSE 1

RECURSIVE ByteLen(_)
ByteLen(s) == IF s = <<>> THEN 0 ELSE Utf8Len(Head(s)) + ByteLen(Tail(s))

\* str::starts_with
StartsWith(s, p) == Len(s) >= Len(p) /\ SubSeq(s, 1, Len(p)) = p

\* TRUE iff pat occurs in s at (1-based) position i.
MatchAt(s, pat, i) ==
    /\ i >= 1
    /\ i + Len(pat) - 1 =< Len(s)
    /\ SubSeq(s, i, i + Len(pat) - 1) = pat

\* Positions where pat occurs in s.
Matches(s, pat) == {i \in 1..Len(s) : MatchAt(s, pat, i)}

SetMin(S) == CHOOSE x \in S : \A y \in S : x =< y
SetMax(S) == CHOOSE x \in S : \A y \in S : x >= y

\* str::split(pat): non-overlapping matches, leftmost first; always at least
\* one piece.
RECURSIVE Split(_, _)
Split(s, pat) ==
    IF Matches(s, pat) = {}
    THEN <<s>>
    ELSE LET i == SetMin(Matches(s, pat))
         IN  <<SubSeq(s, 1, i - 1)>> \o Split(SubSeq(s, i + Len(pat), Len(s)), pat)

\* str::split_once(pat): None, or Some(<<before, after>>) at the first match.
SplitOnce(s, pat) ==
    IF Matches(s, pat) = {}
    THEN None
    ELSE LET i == SetMin(Matches(s, pat))
         IN  Some(<<SubSeq(s, 1, i - 1), SubSeq(s, i + Len(pat), Len(s))>>)

\* str::rsplit_once(pat): the same at the last match.
RSplitOnce(s, pat) ==
    IF Matches(s, pat) = {}
    THEN None
    ELSE LET i == SetMax(Matches(s, pat))
         IN  Some(<<SubSeq(s, 1, i - 1), SubSeq(s, i + Len(pat), Len(s))>>)

\* str::trim (the only whitespace of the model's alphabet is the space).
RECURSIVE TrimStart(_)
TrimStart(s) == IF s /= <<>> /\ Head(s) = " " THEN TrimStart(Tail(s)) ELSE s
RECURSIVE TrimEnd(_)
TrimEnd(s) ==
    IF s /= <<>> /\ s[Len(s)] = " " THEN TrimEnd(SubSeq(s, 1, Len(s) - 1)) ELSE s
Trim(s) == TrimEnd(TrimStart(s))

\* [&str]::join(sep)
RECURSIVE Join(_, _)
Join(parts, sep) ==
    IF parts = <<>> THEN <<>>
    ELSE IF Len(parts) = 1 THEN parts[1]
    ELSE parts[1] \o sep \o Join(Tail(parts), sep)

\* &s[n..]: the suffix from byte offset n; None when n is past the end or
\* inside a character (the slice panics).
SliceFromByte(s, n) ==
    LET cuts == {k \in 0..Len(s) : ByteLen(SubSeq(s, 1, k)) = n}
    IN  IF cuts = {} THEN None
        ELSE Some(SubSeq(s, SetMin(cuts) + 1, Len(s)))

Digits == <<"0", "1", "2", "3", "4", "5", "6", "7", "8", "9">>
IsDigit(c) == \E d \in 1..10 : Digits[d] = c
DigitVal(c) == (CHOOSE d \in 1..10 : Digits[d] = c) - 1

RECURSIVE DecVal(_)
DecVal(s) == IF s = <<>> THEN 0 ELSE DecVal(SubSeq(s, 1, Len(s) - 1)) * 10 + DigitVal(s[Len(s)])

\* str::parse::<uN>(): an optional '+', then one or more digits, value at
\* most max; None is the Err that the callers unwrap.
ParseUnsigned(s, max) ==
    LET body == IF s /= <<>> /\ Head(s) = "+" THEN Tail(s) ELSE s
    IN  IF body = <<>> \/ \E i \in 1..Len(body) : ~IsDigit(body[i]) THEN None
        ELSE IF DecVal(body) > max THEN None
        ELSE Some(DecVal(body))

U8Max == 255

\* str::parse::<u32>() for texts of at most 9 digits, all below u32::MAX.
ParseU32(s) ==
    LET body == IF s /= <<>> /\ Head(s) = "+" THEN Tail(s) ELSE s
    IN  IF body = <<>> \/ \E i \in 1..Len(body) : ~IsDigit(body[i]) THEN None
        ELSE Some(DecVal(body))


\* ---------------------------------------------------------------- menu ids
\* "submenu_", the prefix of the ids of the category nodes.
SubmenuPrefix == <<"s", "u", "b", "m", "e", "n", "u", "_">>

\* Class tokens a parent item can carry after " submenu_".
Tokens == {<<"1">>}
\* Menu ids an onclick handler of a leaf item can carry.
OnclickIds == {<<"1", "_", "3">>}
\* Every id of the model: the ids the items can carry and one more category
\* id, which only a root can have.
Ids == {SubmenuPrefix \o t : t \in Tokens \cup {<<"2">>}} \cup OnclickIds

\* The ids Aurion::new is given for the two roots.
SchoolingIds == Ids
GroupsIds == {SubmenuPrefix \o <<"2">>}

\* -------------------------------------------------------------------- state
VARIABLES
    schooling_id,        \* Menu.schooling_id
    user_planning_id,    \* Menu.user_planning_id
    groups_planning_id,  \* Menu.groups_planning_id
    heap,                \* every Node allocated (Rc<RefCell<Node>>), by reference
    nodes,               \* Menu.nodes: id -> reference into heap
    view_state,          \* Aurion.view_state: Option<String>
    form_id,             \* Aurion.form_id: Option<u8>
    frames,              \* the suspended calls, outermost first
    pc,                  \* the await the innermost call is suspended on
    sent,                \* requests sent by the current top-level call
    received,            \* responses received by the current top-level call
    returned,            \* values returned by the functions of the current call
    result,              \* outcome of the last completed top-level call
    previous,            \* outcome of the call before, when both are successful
                         \* get_menu_child_nodes calls on the same id
    parse_arg,           \* the title a parse_title call is given
    parse_ret,           \* what that call gave
    event_types,         \* the labels map_kind was given, in call order
    kinds                \* what each of those calls gave

config == <<schooling_id, user_planning_id, groups_planning_id>>
vars == <<schooling_id, user_planning_id, groups_planning_id, heap, nodes,
          view_state, form_id, frames, pc, sent, received, returned, result,
          previous, parse_arg, parse_ret, event_types, kinds>>

\* --------------------------------------------------------------- menu/node
\* Node::new: no children; the name is kept apart from the tree shape.
NewNode(id, name, parent) ==
    [id |-> id, name |-> name, children |-> <<>>, parent |-> parent]

\* Node::add_child on the node at reference ref.
add_child(h, ref, child) ==
    [h EXCEPT ![ref].children = Append(@, child)]

\* Node::get_children
get_children(n) == n.children

\* A variant of is_loaded that takes a category node with exactly one child
\* for loaded.
is_loaded_OneChild(n) ==
    IF StartsWith(n.id, SubmenuPrefix) THEN Len(n.children) = 1 ELSE n.children = <<>>

\* A variant of is_loaded that only looks at the children.
is_loaded_HasChildren(n) == n.children /= <<>>

\* Node::is_loaded: !(starts_with("submenu_") ^ !children.is_empty())
is_loaded(n) ==
    ~( (StartsWith(n.id, SubmenuPrefix) /\ ~(n.children /= <<>>))
       \/ (~StartsWith(n.id, SubmenuPrefix) /\ (n.children /= <<>>)) )

\* Node::is_leaf
is_leaf(n) == ~StartsWith(n.id, SubmenuPrefix) /\ n.children = <<>>

\* --------------------------------------------------------------- menu/menu
\* HashMap::insert
MapInsert(m, k, v) == [x \in (DOMAIN m) \cup {k} |-> IF x = k THEN v ELSE m[x]]

EmptyMap == [x \in {} |-> 0]

\* Menu::add_node: registers the node at ref under its own id.
add_node(m, h, ref) == MapInsert(m, h[ref].id, ref)

\* A variant of get_menu_node that falls back to the first node.
get_menu_node_Fallback(m, menu_id) ==
    IF menu_id \in DOMAIN m THEN Some(m[menu_id]) ELSE Some(1)

\* Menu::get_menu_node: Option of a reference.
get_menu_node(m, menu_id) ==
    IF menu_id \in DOMAIN m THEN Some(m[menu_id]) ELSE None

\* Menu::is_node_loaded
is_node_loaded(m, h, menu_id) ==
    IF menu_id \in DOMAIN m THEN is_loaded(h[m[menu_id]]) ELSE FALSE

SchoolingName == <<"S">>
GroupsName == <<"G">>

\* Menu::new: the two root nodes and the map after the two inserts.
MenuNewHeap(s_id, g_id) ==
    <<NewNode(s_id, SchoolingName, None), NewNode(g_id, GroupsName, None)>>

\* A variant of Menu::new that registers the groups root only.
MenuNewNodes_GroupsOnly(s_id, g_id) == MapInsert(EmptyMap, g_id, 2)

MenuNewNodes(s_id, g_id) == MapInsert(MapInsert(EmptyMap, s_id, 1), g_id, 2)


\* -------------------------------------------------------- requests, results
\* One request of the session: the page it goes to and the fields of its
\* payload that depend on the session.  source is the number in
\* "form:j_idt<n>", view_state the value sent as javax.faces.ViewState (None:
\* JSON null), menu_id the menu id of the payload.
Request(method, url, source, vs, menu_id) ==
    [method |-> method, url |-> url, source |-> source, view_state |-> vs,
     menu_id |-> menu_id]

Ok(fn, value) == [fn |-> fn, kind |-> "Ok", err |-> "", value |-> value]
Err(fn, msg) == [fn |-> fn, kind |-> "Err", err |-> msg, value |-> <<>>]

\* What the user gets back from the top-level call of frame call, with the
\* responses it received; kind "Panic" when the call did not return, at
\* being the function that panicked.
Outcome(res, call, resps) ==
    [fn |-> call.fn, arg |-> call.arg, kind |-> res.kind, err |-> res.err,
     at |-> res.fn, value |-> res.value, received |-> resps]
NoResult ==
    [fn |-> "", arg |-> <<>>, kind |-> "none", err |-> "", at |-> "",
     value |-> <<>>, received |-> <<>>]

\* A suspended call: the function, its argument, and its locals (node: the
\* menu node get_menu_child_nodes holds; todo: the ids load_menu_nodes has
\* still to visit).
Frame(fn, arg) == [fn |-> fn, arg |-> arg, node |-> 0, todo |-> <<>>]

\* The state as one record, so that the code between two awaits is a function
\* from state to state.
Cur ==
    [heap |-> heap, nodes |-> nodes, view_state |-> view_state,
     form_id |-> form_id, frames |-> frames, pc |-> pc, sent |-> sent,
     received |-> received, returned |-> returned, result |-> result,
     previous |-> previous]

Commit(s) ==
    /\ heap' = s.heap
    /\ nodes' = s.nodes
    /\ view_state' = s.view_state
    /\ form_id' = s.form_id
    /\ frames' = s.frames
    /\ pc' = s.pc
    /\ sent' = s.sent
    /\ received' = s.received
    /\ returned' = s.returned
    /\ result' = s.result
    /\ previous' = s.previous
    /\ UNCHANGED <<config, parse_arg, parse_ret, event_types, kinds>>

\* A top-level call fn(arg) begins.  The outcome of the call before is kept
\* as previous only when this call repeats it.
Begin(s, fn, arg) ==
    [s EXCEPT !.previous = IF fn = s.previous.fn /\ arg = s.previous.arg
                           THEN s.previous ELSE NoResult]

Push(s, frame) == [s EXCEPT !.frames = Append(@, frame)]
Pop(s) == [s EXCEPT !.frames = SubSeq(@, 1, Len(@) - 1)]
Top(s) == s.frames[Len(s.frames)]
SetTop(s, frame) == [s EXCEPT !.frames[Len(s.frames)] = frame]

\* client.<method>(url)...send(): the request is on the wire and the call is
\* suspended at label.
Send(s, req, label) == [s EXCEPT !.sent = Append(@, req), !.pc = label]

\* The response the suspended call wakes up with.
Receive(s, resp) == [s EXCEPT !.received = Append(@, resp)]

\* The outermost function returns res to the user.
Finish(s, res, call) ==
    [s EXCEPT !.pc = "returned", !.frames = <<>>,
              !.result = Outcome(res, call, s.received)]

\* A panic in function fn: the call never returns, the state stays as it was.
Abort(s, fn, msg) ==
    [s EXCEPT !.pc = "aborted",
              !.result = Outcome([fn |-> fn, kind |-> "Panic", err |-> msg, value |-> <<>>],
                                 s.frames[1], s.received)]

\* ---------------------------------------------------------------- responses
\* Answers to a POST of which only the headers are read.
HeaderResponses ==
    {[transport |-> "error", location |-> FALSE],
     [transport |-> "ok", location |-> FALSE],
     [transport |-> "ok", location |-> TRUE]}

\* A list item of a sidebar fragment, as the extraction sees it:
\*   has_class    the <li> has a class attribute
\*   is_parent    the class contains "ui-menu-parent"
\*   class_token  the text between " submenu_" and the next space of the class
\*   name_text    the text of a/span[@class="ui-menuitem-text"]
\*   onclick_id   the text between "form:sidebar_menuid':'" and the next "'"
\*                of the onclick attribute of the <a>
Item(has_class, is_parent, class_token, name_text, onclick_id) ==
    [has_class |-> has_class, is_parent |-> is_parent, class_token |-> class_token,
     name_text |-> name_text, onclick_id |-> onclick_id]

ParentText == <<"P", "l", "a", "n", "n", "i", "n", "g", "s", " ", "A">>
LeafText == <<"P", "l", "a", "n", "n", "i", "n", "g", " ", "B">>

GoodItems ==
    {Item(TRUE, TRUE, Some(t), Some(ParentText), None) : t \in Tokens}
    \cup {Item(TRUE, FALSE, None, Some(LeafText), Some(i)) : i \in OnclickIds}

FaultyItems ==
    {Item(FALSE, FALSE, None, Some(LeafText), Some(<<"1", "_", "3">>)),
     Item(TRUE, TRUE, Some(<<"1">>), None, None),
     Item(TRUE, TRUE, None, Some(ParentText), None),
     Item(TRUE, FALSE, None, Some(LeafText), None)}

Items == GoodItems \cup FaultyItems

SeqsUpTo(S, n) == UNION {[1..k -> S] : k \in 0..n}

\* The fragments: up to MaxItems items, none after a faulty one (the loop
\* never gets to them).
Fragments ==
    {f \in SeqsUpTo(Items, MaxItems) :
       \A i \in 1..Len(f) : f[i] \in FaultyItems => i = Len(f)}

\* Answers to the child-nodes POST: open/close tell whether the body has the
\* marker before and the marker after the sidebar fragment, items is what
\* the XPath query finds in it.
ChildResponses ==
    {[transport |-> "error", body |-> FALSE, open |-> FALSE, close |-> FALSE, items |-> <<>>],
     [transport |-> "ok", body |-> FALSE, open |-> FALSE, close |-> FALSE, items |-> <<>>],
     [transport |-> "ok", body |-> TRUE, open |-> FALSE, close |-> FALSE, items |-> <<>>]}
    \cup {[transport |-> "ok", body |-> TRUE, open |-> TRUE, close |-> c, items |-> f] :
            c \in BOOLEAN, f \in Fragments}


\* -------------------------------------------------- get_menu_child_nodes
\* str::replace(pat, "")
Remove(s, pat) == Join(Split(s, pat), <<>>)

\* The display name: "Plannings" and "Planning" removed, then trimmed.
CleanName(text) ==
    Trim(Remove(Remove(text, <<"P", "l", "a", "n", "n", "i", "n", "g", "s">>),
                <<"P", "l", "a", "n", "n", "i", "n", "g">>))

\* The id of a list item: "submenu_" and the class token for a parent item,
\* the onclick menu id otherwise.
ItemId(it) ==
    IF it.is_parent THEN SubmenuPrefix \o Unwrap(it.class_token)
    ELSE Unwrap(it.onclick_id)

\* The unwrap or the index of the loop body that panics on this item, or "".
ItemPanic(it) ==
    IF ~it.has_class THEN "get_attribute(class).unwrap()"
    ELSE IF IsNone(it.name_text) THEN "findnodes(text())[0]"
    ELSE IF it.is_parent /\ IsNone(it.class_token) THEN "split_once(submenu_).unwrap()"
    ELSE IF ~it.is_parent /\ IsNone(it.onclick_id) THEN "get_attribute(onclick).unwrap()"
    ELSE ""

\* The loop over the list items: each one becomes a new node, is pushed on
\* the children of the node at parent and inserted in the map under its id.
\* A panic leaves what the items before it did.
RECURSIVE AddChildren(_, _, _, _)
AddChildren(h, m, parent, items) ==
    IF items = <<>> THEN [heap |-> h, nodes |-> m, panic |-> ""]
    ELSE IF ItemPanic(Head(items)) /= ""
    THEN [heap |-> h, nodes |-> m, panic |-> ItemPanic(Head(items))]
    ELSE LET it == Head(items)
             child == Len(h) + 1
             h1 == Append(h, NewNode(ItemId(it), CleanName(Unwrap(it.name_text)), Some(parent)))
             h2 == add_child(h1, parent, child)
         IN  AddChildren(h2, add_node(m, h2, child), parent, Tail(items))

\* Aurion::default_parameters: the view state goes in as it is, null if None.
default_parameters(s, menu_id) ==
    Request("POST", "main_menu_url", None, s.view_state, Some(menu_id))

\* The payload of get_menu_child_nodes: unwrap_or_default() of both tokens.
ChildNodesRequest(s, menu_id) ==
    Request("POST", "main_menu_url",
            Some(IF IsNone(s.form_id) THEN 0 ELSE Unwrap(s.form_id)),
            Some(IF IsNone(s.view_state) THEN "" ELSE Unwrap(s.view_state)),
            Some(menu_id))

\* get_user_schedule after the root is dealt with: the priming POST.
UserPrime(s) == Send(s, default_parameters(s, user_planning_id), "user_post")

\* get_schedule from its entry to its first await.
CallGetSchedule(s) ==
    Send(Push(s, Frame("get_schedule", <<>>)),
         Request("GET", "planning_url", None, None, None), "sched_get")

RECURSIVE ReturnFrom(_, _)
RECURSIVE RunLoad(_)

\* get_menu_child_nodes from its entry to its first await.
CallGetMenuChildNodes(s, menu_id) ==
    LET s1 == Push(s, Frame("get_menu_child_nodes", menu_id))
        menu_node == get_menu_node(s.nodes, menu_id)
    IN  IF IsNone(menu_node)
        THEN ReturnFrom(s1, Err("get_menu_child_nodes", "node not found"))
        ELSE Send(SetTop(s1, [Top(s1) EXCEPT !.node = Unwrap(menu_node)]),
                  ChildNodesRequest(s, menu_id), "child_post")

\* A variant of the loop that expands every listed id, loaded or not.
RunLoad_NoSkip(s) ==
    IF Top(s).todo = <<>>
    THEN ReturnFrom(s, Ok("load_menu_nodes", <<>>))
    ELSE CallGetMenuChildNodes(SetTop(s, [Top(s) EXCEPT !.todo = Tail(@)]),
                               Head(Top(s).todo))

\* The for loop of load_menu_nodes, from the top of an iteration.
RunLoad(s) ==
    IF Top(s).todo = <<>>
    THEN ReturnFrom(s, Ok("load_menu_nodes", <<>>))
    ELSE LET menu_node == Head(Top(s).todo)
             s1 == SetTop(s, [Top(s) EXCEPT !.todo = Tail(@)])
         IN  IF is_node_loaded(s.nodes, s.heap, menu_node)
             THEN RunLoad(s1)
             ELSE CallGetMenuChildNodes(s1, menu_node)

\* load_menu_nodes from its entry.
CallLoadMenuNodes(s, menu_nodes) ==
    RunLoad(Push(s, [Frame("load_menu_nodes", menu_nodes) EXCEPT !.todo = menu_nodes]))

\* The innermost function returns res: its caller goes on from the call.
\*   load_menu_nodes:    get_menu_child_nodes(..).await?
\*   get_user_schedule:  load_menu_nodes(..).await.unwrap()
\*                       get_schedule(..).await.unwrap()
ReturnFrom(s, res) ==
    LET s1 == [Pop(s) EXCEPT !.returned = Append(@, res)]
    IN  IF s1.frames = <<>> THEN Finish(s1, res, Top(s))
        ELSE IF Top(s1).fn = "load_menu_nodes"
        THEN IF res.kind = "Err"
             THEN ReturnFrom(s1, Err("load_menu_nodes", res.err))
             ELSE RunLoad(s1)
        ELSE IF res.fn = "load_menu_nodes"
        THEN IF res.kind = "Err"
             THEN Abort(s1, "get_user_schedule", "load_menu_nodes(..).unwrap()")
             ELSE UserPrime(s1)
        ELSE IF res.kind = "Err"
             THEN Abort(s1, "get_user_schedule", "get_schedule(..).unwrap()")
             ELSE ReturnFrom(s1, Ok("get_user_schedule", res.value))

\* get_menu_child_nodes from the answer to its POST to its return.
HandleChildPost(s, resp) ==
    LET fn == "get_menu_child_nodes"
        menu_node == Top(s).node
        r == AddChildren(s.heap, s.nodes, menu_node, resp.items)
        s1 == [s EXCEPT !.heap = r.heap, !.nodes = r.nodes]
    IN  IF resp.transport = "error" THEN ReturnFrom(s, Err(fn, "transport"))
        ELSE IF ~resp.body THEN Abort(s, fn, "text().await.unwrap()")
        ELSE IF ~resp.open THEN ReturnFrom(s, Err(fn, "invalid response"))
        ELSE IF r.panic /= "" THEN Abort(s1, fn, r.panic)
        ELSE ReturnFrom(s1, Ok(fn, get_children(r.heap[menu_node])))

\* -------------------------------------------------------- utils: the tokens
\* A page, as the token extraction sees it:
\*   view_state_marker  the body contains name="javax.faces.ViewState"
\*   view_state_value   the text between the next value=" and the next quote
\*                      (None: no value=" after the marker)
\*   form_id_marker     the body contains the chargerSousMenu marker
\*   form_id_text       the text between that marker and the next quote
\*   schedule_marker    the body contains " class="schedule"
\*   schedule_id_text   the text between the last id="form:j_idt before that
\*                      marker and the marker (None: no such id)
Page(vm, vv, fm, ft, sm, st) ==
    [view_state_marker |-> vm, view_state_value |-> vv, form_id_marker |-> fm,
     form_id_text |-> ft, schedule_marker |-> sm, schedule_id_text |-> st]

\* The extraction functions return Option values or panic.
Value(v) == [panic |-> FALSE, value |-> v]
Panics == [panic |-> TRUE, value |-> None]

\* utils::get_view_state
get_view_state(text) ==
    IF ~text.view_state_marker THEN Value(None)
    ELSE IF IsNone(text.view_state_value) THEN Panics
    ELSE Value(Some(Unwrap(text.view_state_value)))

\* utils::get_form_id: parse::<u8>().unwrap()
get_form_id(text) ==
    IF ~text.form_id_marker THEN Value(None)
    ELSE IF IsNone(ParseUnsigned(text.form_id_text, U8Max)) THEN Panics
    ELSE Value(ParseUnsigned(text.form_id_text, U8Max))

\* utils::get_schedule_form_id: rsplit_once(..).unwrap(), parse::<u8>().unwrap()
get_schedule_form_id(text) ==
    IF ~text.schedule_marker THEN Value(None)
    ELSE IF IsNone(text.schedule_id_text) THEN Panics
    ELSE IF IsNone(ParseUnsigned(Unwrap(text.schedule_id_text), U8Max)) THEN Panics
    ELSE Value(ParseUnsigned(Unwrap(text.schedule_id_text), U8Max))

\* The pages the service root answers the token-priming GET with.
TokenPages ==
    {Page(TRUE, Some("v1"), TRUE, <<"7">>, FALSE, None),
     Page(FALSE, None, TRUE, <<"7">>, FALSE, None),
     Page(TRUE, Some("v1"), FALSE, <<>>, FALSE, None),
     Page(FALSE, None, FALSE, <<>>, FALSE, None),
     Page(TRUE, None, TRUE, <<"7">>, FALSE, None),
     Page(TRUE, Some("v1"), TRUE, <<"2", "5", "6">>, FALSE, None)}

NoPage == Page(FALSE, None, FALSE, <<>>, FALSE, None)

\* Answers to a GET of which the body is read: body tells whether reading
\* the text succeeds.
PageResponses(pages) ==
    {[transport |-> "error", body |-> FALSE, text |-> NoPage],
     [transport |-> "ok", body |-> FALSE, text |-> NoPage]}
    \cup {[transport |-> "ok", body |-> TRUE, text |-> pg] : pg \in pages}

\* -------------------------------------------------------------------- login
\* login from its entry to its first await.
CallLogin(s) ==
    Send(Push(s, Frame("login", <<>>)),
         Request("POST", "login_url", None, None, None), "login_post")

\* A variant of HandleLoginPost that does not look at the location header.
HandleLoginPost_NoCheck(s, resp) ==
    IF resp.transport = "error" THEN ReturnFrom(s, Err("login", "transport"))
    ELSE Send(s, Request("GET", "service_url", None, None, None), "login_get")

\* login from the answer to the credentials POST.
HandleLoginPost(s, resp) ==
    IF resp.transport = "error" THEN ReturnFrom(s, Err("login", "transport"))
    ELSE IF ~resp.location THEN ReturnFrom(s, Err("login", "failed to login"))
    ELSE Send(s, Request("GET", "service_url", None, None, None), "login_get")

\* login from the answer to the token-priming GET: the view state is
\* assigned before the form id is extracted.
HandleLoginGet(s, resp) ==
    LET vs == get_view_state(resp.text)
        fid == get_form_id(resp.text)
        s1 == [s EXCEPT !.view_state = vs.value]
    IN  IF resp.transport = "error" \/ ~resp.body
        THEN ReturnFrom(s, Err("login", "transport"))
        ELSE IF vs.panic THEN Abort(s, "login", "get_view_state")
        ELSE IF fid.panic THEN Abort(s1, "login", "get_form_id")
        ELSE ReturnFrom([s1 EXCEPT !.form_id = fid.value], Ok("login", <<>>))

\* --------------------------------------------------------- get_class_groups
\* A row of the class-group table: the data-rk attribute and the text of the
\* last child of its last child (None: absent).
Row(data_rk, name) == [data_rk |-> data_rk, name |-> name]

GoodRows == {Row(Some(<<"1", "2">>), Some(<<"G">>))}
FaultyRows ==
    {Row(None, Some(<<"G">>)), Row(Some(<<"x">>), Some(<<"G">>)),
     Row(Some(<<"1", "2">>), None)}

\* Rows in one class-group table.
MaxRows == 2

Tables ==
    {f \in SeqsUpTo(GoodRows \cup FaultyRows, MaxRows) :
       \A i \in 1..Len(f) : f[i] \in FaultyRows => i = Len(f)}

GroupsResponses ==
    {[transport |-> "error", body |-> FALSE, rows |-> <<>>],
     [transport |-> "ok", body |-> FALSE, rows |-> <<>>]}
    \cup {[transport |-> "ok", body |-> TRUE, rows |-> f] : f \in Tables}

\* ClassGroup::new
ClassGroupNew(id, name) == [id |-> id, name |-> name]

RowPanics(row) ==
    IsNone(row.data_rk) \/ IsNone(ParseU32(Unwrap(row.data_rk))) \/ IsNone(row.name)

\* A variant of CallGetClassGroups without the is_leaf check.
CallGetClassGroups_NoLeafCheck(s, class_group_id) ==
    LET fn == "get_class_groups"
        s1 == Push(s, Frame(fn, class_group_id))
        node == get_menu_node(s.nodes, class_group_id)
    IN  IF IsNone(node) THEN ReturnFrom(s1, Err(fn, "node not found"))
        ELSE IF ~is_loaded(s.heap[Unwrap(node)])
        THEN ReturnFrom(s1, Err(fn, "not loaded"))
        ELSE Send(s1, default_parameters(s, class_group_id), "groups_post")

\* get_class_groups from its entry to its first await.
CallGetClassGroups(s, class_group_id) ==
    LET fn == "get_class_groups"
        s1 == Push(s, Frame(fn, class_group_id))
        node == get_menu_node(s.nodes, class_group_id)
    IN  IF IsNone(node) THEN ReturnFrom(s1, Err(fn, "node not found"))
        ELSE IF ~is_leaf(s.heap[Unwrap(node)])
        THEN ReturnFrom(s1, Err(fn, "not a leaf node"))
        ELSE IF ~is_loaded(s.heap[Unwrap(node)])
        THEN ReturnFrom(s1, Err(fn, "not loaded"))
        ELSE Send(s1, default_parameters(s, class_group_id), "groups_post")

\* A variant of HandleGroupsPost that goes on without the location header.
HandleGroupsPost_NoCheck(s, resp) ==
    IF resp.transport = "error" THEN ReturnFrom(s, Err("get_class_groups", "transport"))
    ELSE Send(s, Request("GET", "planning_choice_url", None, None, None), "groups_get")

\* get_class_groups from the answer to the priming POST.
HandleGroupsPost(s, resp) ==
    LET fn == "get_class_groups"
    IN  IF resp.transport = "error" THEN ReturnFrom(s, Err(fn, "transport"))
        ELSE IF ~resp.location THEN ReturnFrom(s, Err(fn, "not successful"))
        ELSE Send(s, Request("GET", "planning_choice_url", None, None, None), "groups_get")

\* get_class_groups from the answer to the planning-choice GET.
HandleGroupsGet(s, resp) ==
    LET fn == "get_class_groups"
    IN  IF resp.transport = "error" THEN ReturnFrom(s, Err(fn, "transport"))
        ELSE IF ~resp.body THEN Abort(s, fn, "text().await.unwrap()")
        ELSE IF resp.rows = <<>> THEN ReturnFrom(s, Err(fn, "class groups not found"))
        ELSE IF \E i \in 1..Len(resp.rows) : RowPanics(resp.rows[i])
        THEN Abort(s, fn, "row unwrap()")
        ELSE ReturnFrom(s, Ok(fn, [i \in 1..Len(resp.rows) |->
                 ClassGroupNew(Unwrap(ParseU32(Unwrap(resp.rows[i].data_rk))),
                               Unwrap(resp.rows[i].name))]))

\* -------------------------------------------------------------- event/event
Upper == <<"A", "B", "C", "D", "E", "F", "G", "H", "I", "J", "K", "L", "M",
           "N", "O", "P", "Q", "R", "S", "T", "U", "V", "W", "X", "Y", "Z">>
Lower == <<"a", "b", "c", "d", "e", "f", "g", "h", "i", "j", "k", "l", "m",
           "n", "o", "p", "q", "r", "s", "t", "u", "v", "w", "x", "y", "z">>

\* str::to_lowercase
ToLowerChar(c) ==
    IF \E i \in 1..Len(Upper) : Upper[i] = c
    THEN Lower[CHOOSE i \in 1..Len(Upper) : Upper[i] = c]
    ELSE c
to_lowercase(s) == [i \in 1..Len(s) |-> ToLowerChar(s[i])]

\* A variant of map_kind that compares the label as it comes.
map_kind_CaseSensitive(event_type) ==
    IF event_type \in {<<"c", "m">>, <<"c", "o", "u", "r", "s">>} THEN "Course"
    ELSE IF event_type \in {<<"d", "s">>, <<"e", "v", "a", "l", "u", "a", "t", "i", "o", "n">>,
                            <<"e", "s", "t", "-", "e", "p", "r", "e", "u", "v", "e">>}
    THEN "Exam"
    ELSE IF event_type \in {<<"t", "d">>, <<"c", "o", "u", "r", "s", "_", "t", "d">>}
    THEN "SupervisedWork"
    ELSE IF event_type = <<"c", "o", "n", "g", "e", "s">> THEN "Leave"
    ELSE IF event_type = <<"r", "e", "u", "n", "i", "o", "n">> THEN "Meeting"
    ELSE IF event_type = <<"t", "p">> THEN "PracticalWork"
    ELSE IF event_type = <<"p", "r", "o", "j", "e", "t">> THEN "Project"
    ELSE "Other"

\* event::map_kind
map_kind(event_type) ==
    LET l == to_lowercase(event_type)
    IN  IF l = <<"c", "o", "n", "g", "e", "s">> THEN "Leave"
        ELSE IF l = <<"c", "m">> THEN "Course"
        ELSE IF l = <<"c", "o", "u", "r", "s">> THEN "Course"
        ELSE IF l = <<"e", "s", "t", "-", "e", "p", "r", "e", "u", "v", "e">> THEN "Exam"
        ELSE IF l = <<"e", "v", "a", "l", "u", "a", "t", "i", "o", "n">> THEN "Exam"
        ELSE IF l = <<"d", "s">> THEN "Exam"
        ELSE IF l = <<"r", "e", "u", "n", "i", "o", "n">> THEN "Meeting"
        ELSE IF l = <<"t", "d">> THEN "SupervisedWork"
        ELSE IF l = <<"c", "o", "u", "r", "s", "_", "t", "d">> THEN "SupervisedWork"
        ELSE IF l = <<"t", "p">> THEN "PracticalWork"
        ELSE IF l = <<"p", "r", "o", "j", "e", "t">> THEN "Project"
        ELSE "Other"

Dash == <<" ", "-", " ">>
Slash == <<" ", "/", " ">>

\* The outcome of a conversion: "Ok" with a value, "Err" with a message, or
\* "Panic".
Converted(v) == [kind |-> "Ok", err |-> "", value |-> v]
Failed(msg) == [kind |-> "Err", err |-> msg, value |-> <<>>]
Aborted(msg) == [kind |-> "Panic", err |-> msg, value |-> <<>>]

\* Every piece of s split on " / ", trimmed.
TrimmedParts(s) == [i \in 1..Len(Split(s, Slash)) |-> Trim(Split(s, Slash)[i])]

\* A sequence without its empty strings.
RECURSIVE NonEmpty(_)
NonEmpty(parts) ==
    IF parts = <<>> THEN <<>>
    ELSE IF Head(parts) = <<>> THEN NonEmpty(Tail(parts))
    ELSE <<Head(parts)>> \o NonEmpty(Tail(parts))

\* The branch of parse_title for the titles "12h00 a 13h00 - ...": the text
\* from byte 16, cut before its last " - ", split on " - ".
ParseOuest(title) ==
    LET rest == SliceFromByte(title, 16)
        cut == RSplitOnce(Unwrap(rest), Dash)
        slots == Split(Unwrap(cut)[1], Dash)
        n == Len(slots)
        chapter == Trim(Join(SubSeq(slots, 4, n - 1), Dash))
    IN  IF IsNone(rest) THEN Aborted("title[16..]")
        ELSE IF IsNone(cut) THEN Aborted("rsplit_once( - ).unwrap()")
        ELSE IF n < 3 THEN Aborted("title[2]")
        ELSE IF n < 4 THEN Aborted("title[3..title.len() - 1]")
        ELSE Converted([rooms |-> TrimmedParts(slots[1]),
                        subject |-> slots[3],
                        chapter |-> IF chapter = <<>> THEN None ELSE Some(chapter),
                        participants |-> NonEmpty(TrimmedParts(slots[n]))])

\* event::parse_title: decided by title.chars().nth(6).
parse_title(title) ==
    IF Len(title) >= 7 /\ title[7] = AGrave THEN ParseOuest(title)
    ELSE IF Len(title) >= 7 /\ title[7] = "-" THEN Aborted("Not implemented yet")
    ELSE Failed("The title is not of the form")

\* A raw record as decoded from the JSON (the timestamps and the two unused
\* booleans are left out).
RawEvent(id, title, className) == [id |-> id, title |-> title, className |-> className]

\* event::parse_event
parse_event(event) ==
    LET id == ParseU32(event.id)
        parsed == parse_title(event.title)
    IN  IF IsNone(id) THEN Aborted("event.id.parse().unwrap()")
        ELSE IF parsed.kind /= "Ok" THEN parsed
        ELSE Converted([id |-> Unwrap(id), kind |-> map_kind(event.className),
                        rooms |-> parsed.value.rooms,
                        subject |-> parsed.value.subject,
                        chapter |-> parsed.value.chapter,
                        participants |-> parsed.value.participants])

\* Event::from_raw_event
from_raw_event(event) == parse_event(event)

\* "09h00 a 10h00 - ", 16 characters and 17 bytes.
TimePrefix ==
    <<"0", "9", "h", "0", "0", " ", AGrave, " ", "1", "0", "h", "0", "0", " ", "-", " ">>
\* "09h00 - 10h00 - ", the prefix of the other institution.
LillePrefix ==
    <<"0", "9", "h", "0", "0", " ", "-", " ", "1", "0", "h", "0", "0", " ", "-", " ">>

\* "<prefix>A / B - X - Maths - Vectors - S / J"
TitleChapter ==
    TimePrefix \o <<"A", " ", "/", " ", "B">> \o Dash \o <<"X">> \o Dash
    \o <<"M", "a", "t", "h", "s">> \o Dash \o <<"V", "e", "c", "t", "o", "r", "s">>
    \o Dash \o <<"S", " ", "/", " ", "J">>
\* "<prefix>A - X - Maths - Vectors - II - S"
TitleLongChapter ==
    TimePrefix \o <<"A">> \o Dash \o <<"X">> \o Dash \o <<"M", "a", "t", "h", "s">>
    \o Dash \o <<"V", "e", "c", "t", "o", "r", "s">> \o Dash \o <<"I", "I">>
    \o Dash \o <<"S">>
\* "<prefix>A - X - Physics - S"
TitleNoChapter ==
    TimePrefix \o <<"A">> \o Dash \o <<"X">> \o Dash
    \o <<"P", "h", "y", "s", "i", "c", "s">> \o Dash \o <<"S">>
\* "<other prefix>A - X - Physics - S"
TitleLille ==
    LillePrefix \o <<"A">> \o Dash \o <<"X">> \o Dash
    \o <<"P", "h", "y", "s", "i", "c", "s">> \o Dash \o <<"S">>
\* "Conges"
TitleOther == <<"C", "o", "n", "g", "e", "s">>

\* The raw records of the schedule batches.
GoodEvents ==
    {RawEvent(<<"1">>, TitleChapter, <<"C", "M">>),
     RawEvent(<<"2">>, TitleLongChapter, <<"t", "d">>)}
FailingEvents ==
    {RawEvent(<<"3">>, TitleOther, <<"C", "O", "N", "G", "E", "S">>),
     RawEvent(<<"4">>, TitleLille, <<"c", "m">>),
     RawEvent(<<"5">>, TitleNoChapter, <<"c", "m">>),
     RawEvent(<<"x">>, TitleChapter, <<"c", "m">>)}

\* Event::from_raw_event of each of them.
FromRawEvent == EmptyMap @@ [e \in GoodEvents \cup FailingEvents |-> from_raw_event(e)]

\* The batches: up to MaxEvents records, none after a failing one (the loop
\* never gets to them).
Batches ==
    {f \in SeqsUpTo(GoodEvents \cup FailingEvents, MaxEvents) :
       \A i \in 1..Len(f) : f[i] \in FailingEvents => i = Len(f)}

\* ------------------------------------------------------------- get_schedule
\* The pages the planning page answers with.
PlanningPages ==
    {Page(TRUE, Some("v2"), FALSE, <<>>, TRUE, Some(<<"9">>)),
     Page(FALSE, None, FALSE, <<>>, TRUE, Some(<<"9">>)),
     Page(TRUE, Some("v2"), FALSE, <<>>, FALSE, None),
     Page(TRUE, None, FALSE, <<>>, TRUE, Some(<<"9">>)),
     Page(TRUE, Some("v2"), FALSE, <<>>, TRUE, None),
     Page(TRUE, Some("v2"), FALSE, <<>>, TRUE, Some(<<"9", "x">>))}

\* Answers to the schedule POST: open/close tell whether the body has the
\* marker before and the marker after the JSON array, json whether the text
\* between them decodes to raw records, events what it decodes to.
ScheduleResponses ==
    {[transport |-> "error", body |-> FALSE, open |-> FALSE, close |-> FALSE,
      json |-> FALSE, events |-> <<>>],
     [transport |-> "ok", body |-> FALSE, open |-> FALSE, close |-> FALSE,
      json |-> FALSE, events |-> <<>>],
     [transport |-> "ok", body |-> TRUE, open |-> FALSE, close |-> FALSE,
      json |-> FALSE, events |-> <<>>],
     [transport |-> "ok", body |-> TRUE, open |-> FALSE, close |-> TRUE,
      json |-> FALSE, events |-> <<>>],
     [transport |-> "ok", body |-> TRUE, open |-> TRUE, close |-> FALSE,
      json |-> FALSE, events |-> <<>>],
     [transport |-> "ok", body |-> TRUE, open |-> TRUE, close |-> TRUE,
      json |-> FALSE, events |-> <<>>]}
    \cup {[transport |-> "ok", body |-> TRUE, open |-> TRUE, close |-> TRUE,
           json |-> TRUE, events |-> b] : b \in Batches}

\* The loop of get_schedule over the raw records: the events converted so
\* far and, at the first record whose conversion fails, how it fails.
RECURSIVE ConvertAll(_, _)
ConvertAll(raw_schedule, schedule) ==
    IF raw_schedule = <<>> THEN Converted(schedule)
    ELSE LET event == from_raw_event(Head(raw_schedule))
         IN  IF event.kind /= "Ok" THEN event
             ELSE ConvertAll(Tail(raw_schedule), Append(schedule, event.value))

\* The loop on every batch of the model, tabulated once (@@ makes the table
\* explicit).
Conversions == EmptyMap @@ [b \in Batches |-> ConvertAll(b, <<>>)]

\* A variant of HandleSchedGet that keeps the view state of the planning
\* page in the session.
HandleSchedGet_KeepsViewState(s, resp) ==
    LET fn == "get_schedule"
        schedule_form_id == get_schedule_form_id(resp.text)
        vs == get_view_state(resp.text)
    IN  IF resp.transport = "error" THEN ReturnFrom(s, Err(fn, "transport"))
        ELSE IF ~resp.body THEN Abort(s, fn, "text().await.unwrap()")
        ELSE IF schedule_form_id.panic THEN Abort(s, fn, "get_schedule_form_id")
        ELSE IF vs.panic THEN Abort(s, fn, "get_view_state")
        ELSE IF IsNone(schedule_form_id.value)
        THEN ReturnFrom(s, Err(fn, "schedule form id not found"))
        ELSE Send([s EXCEPT !.view_state = vs.value],
                  Request("POST", "planning_url", schedule_form_id.value,
                          vs.value, None), "sched_post")

\* get_schedule from the answer to the planning GET.
HandleSchedGet(s, resp) ==
    LET fn == "get_schedule"
        schedule_form_id == get_schedule_form_id(resp.text)
        vs == get_view_state(resp.text)
    IN  IF resp.transport = "error" THEN ReturnFrom(s, Err(fn, "transport"))
        ELSE IF ~resp.body THEN Abort(s, fn, "text().await.unwrap()")
        ELSE IF schedule_form_id.panic THEN Abort(s, fn, "get_schedule_form_id")
        ELSE IF vs.panic THEN Abort(s, fn, "get_view_state")
        ELSE IF IsNone(schedule_form_id.value)
        THEN ReturnFrom(s, Err(fn, "schedule form id not found"))
        ELSE Send(s, Request("POST", "planning_url", schedule_form_id.value,
                             vs.value, None), "sched_post")

\* A variant of HandleSchedPost that takes a body without the opening marker
\* for an empty schedule.
HandleSchedPost_EmptyOnMissing(s, resp) ==
    LET fn == "get_schedule"
        r == Conversions[resp.events]
    IN  IF resp.transport = "error" THEN ReturnFrom(s, Err(fn, "transport"))
        ELSE IF ~resp.body THEN Abort(s, fn, "text().await.unwrap()")
        ELSE IF ~resp.open THEN ReturnFrom(s, Ok(fn, <<>>))
        ELSE IF ~resp.close THEN Abort(s, fn, "split_once(}]]></update>).unwrap()")
        ELSE IF ~resp.json THEN ReturnFrom(s, Err(fn, "json"))
        ELSE IF r.kind = "Panic" THEN Abort(s, fn, r.err)
        ELSE IF r.kind = "Err" THEN ReturnFrom(s, Err(fn, r.err))
        ELSE ReturnFrom(s, Ok(fn, r.value))

\* get_schedule from the answer to the schedule POST.
HandleSchedPost(s, resp) ==
    LET fn == "get_schedule"
        r == Conversions[resp.events]
    IN  IF resp.transport = "error" THEN ReturnFrom(s, Err(fn, "transport"))
        ELSE IF ~resp.body THEN Abort(s, fn, "text().await.unwrap()")
        ELSE IF ~resp.open THEN ReturnFrom(s, Err(fn, "not valid"))
        ELSE IF ~resp.close THEN Abort(s, fn, "split_once(}]]></update>).unwrap()")
        ELSE IF ~resp.json THEN ReturnFrom(s, Err(fn, "json"))
        ELSE IF r.kind = "Panic" THEN Abort(s, fn, r.err)
        ELSE IF r.kind = "Err" THEN ReturnFrom(s, Err(fn, r.err))
        ELSE ReturnFrom(s, Ok(fn, r.value))

\* -------------------------------------------------------- get_user_schedule
\* get_user_schedule from its entry to its first await.
CallGetUserSchedule(s) ==
    LET s1 == Push(s, Frame("get_user_schedule", <<>>))
    IN  IF ~is_node_loaded(s.nodes, s.heap, schooling_id)
        THEN CallLoadMenuNodes(s1, <<schooling_id>>)
        ELSE UserPrime(s1)

\* get_user_schedule from the answer to its priming POST.
HandleUserPost(s, resp) ==
    LET fn == "get_user_schedule"
    IN  IF resp.transport = "error" THEN ReturnFrom(s, Err(fn, "transport"))
        ELSE IF ~resp.location THEN ReturnFrom(s, Err(fn, "not valid"))
        ELSE CallGetSchedule(s)

\* ------------------------------------------------------------------ actions
\* No parse_title call has been made.
NotParsed == [kind |-> "None", err |-> "", value |-> <<>>]

\* The session as Aurion::new leaves it.
NewSession ==
    /\ schooling_id \in SchoolingIds
    /\ user_planning_id \in OnclickIds
    /\ groups_planning_id \in GroupsIds
    /\ heap = MenuNewHeap(schooling_id, groups_planning_id)
    /\ nodes = MenuNewNodes(schooling_id, groups_planning_id)
    /\ view_state = None
    /\ form_id = None
    /\ frames = <<>>
    /\ pc = "idle"
    /\ sent = <<>>
    /\ received = <<>>
    /\ returned = <<>>
    /\ result = NoResult
    /\ previous = NoResult

Init ==
    /\ NewSession
    /\ parse_arg = <<>>
    /\ parse_ret = NotParsed
    /\ event_types = <<>>
    /\ kinds = <<>>

\* The user calls get_menu_child_nodes(menu_id).
GetMenuChildNodes ==
    /\ pc = "idle"
    /\ \E menu_id \in Ids :
         Commit(CallGetMenuChildNodes(Begin(Cur, "get_menu_child_nodes", menu_id),
                                      menu_id))

\* The server answers the child-nodes POST.
ChildPostResponse ==
    /\ pc = "child_post"
    /\ \E resp \in ChildResponses :
         /\ Len(heap) + Len(resp.items) =< MaxNodes
         /\ Commit(HandleChildPost(Receive(Cur, resp), resp))

\* The lists load_menu_nodes is called with.
MenuNodeLists == SeqsUpTo(Ids, MaxLoad)

\* The user calls load_menu_nodes(menu_nodes).
LoadMenuNodes ==
    /\ pc = "idle"
    /\ \E menu_nodes \in MenuNodeLists :
         Commit(CallLoadMenuNodes(Begin(Cur, "load_menu_nodes", menu_nodes),
                                  menu_nodes))

\* The user calls login(username, password).
Login ==
    /\ pc = "idle"
    /\ Commit(CallLogin(Begin(Cur, "login", <<>>)))

\* The server answers the credentials POST.
LoginPostResponse ==
    /\ pc = "login_post"
    /\ \E resp \in HeaderResponses : Commit(HandleLoginPost(Receive(Cur, resp), resp))

\* The server answers the token-priming GET.
LoginGetResponse ==
    /\ pc = "login_get"
    /\ \E resp \in PageResponses(TokenPages) :
         Commit(HandleLoginGet(Receive(Cur, resp), resp))

\* The user calls get_class_groups(class_group_id).
GetClassGroups ==
    /\ pc = "idle"
    /\ \E class_group_id \in Ids :
         Commit(CallGetClassGroups(Begin(Cur, "get_class_groups", class_group_id),
                                   class_group_id))

\* The server answers the priming POST of get_class_groups.
GroupsPostResponse ==
    /\ pc = "groups_post"
    /\ \E resp \in HeaderResponses : Commit(HandleGroupsPost(Receive(Cur, resp), resp))

\* The server answers the planning-choice GET.
GroupsGetResponse ==
    /\ pc = "groups_get"
    /\ \E resp \in GroupsResponses : Commit(HandleGroupsGet(Receive(Cur, resp), resp))

\* The user calls get_user_schedule(start, end).
GetUserSchedule ==
    /\ pc = "idle"
    /\ Commit(CallGetUserSchedule(Begin(Cur, "get_user_schedule", <<>>)))

\* The server answers the priming POST of get_user_schedule.
UserPostResponse ==
    /\ pc = "user_post"
    /\ \E resp \in HeaderResponses : Commit(HandleUserPost(Receive(Cur, resp), resp))

\* The server answers the planning GET of get_schedule.
SchedGetResponse ==
    /\ pc = "sched_get"
    /\ \E resp \in PageResponses(PlanningPages) :
         Commit(HandleSchedGet(Receive(Cur, resp), resp))

\* The server answers the schedule POST of get_schedule.
SchedPostResponse ==
    /\ pc = "sched_post"
    /\ \E resp \in ScheduleResponses : Commit(HandleSchedPost(Receive(Cur, resp), resp))

\* The caller takes the value the call returned.  A successful
\* get_menu_child_nodes is remembered until the next call.
TakeResult ==
    /\ pc = "returned"
    /\ Commit([Cur EXCEPT !.pc = "idle", !.sent = <<>>, !.received = <<>>,
                          !.returned = <<>>, !.result = NoResult,
                          !.previous = IF /\ result.fn = "get_menu_child_nodes"
                                          /\ result.kind = "Ok"
                                       THEN result ELSE NoResult])

Next ==
    \/ Login
    \/ LoginPostResponse
    \/ LoginGetResponse
    \/ GetMenuChildNodes
    \/ ChildPostResponse
    \/ LoadMenuNodes
    \/ GetClassGroups
    \/ GroupsPostResponse
    \/ GroupsGetResponse
    \/ GetUserSchedule
    \/ UserPostResponse
    \/ SchedGetResponse
    \/ SchedPostResponse
    \/ TakeResult

Spec == Init /\ [][Next]_vars

\* ------------------------------------------------------- parse_title alone
\* Slots of a title body after the time prefix: at most MaxSlots of them.
MaxSlots == 7

\* "09h00 / 10h00 - ": neither of the two forms.
OtherPrefix ==
    <<"0", "9", "h", "0", "0", " ", "/", " ", "1", "0", "h", "0", "0", " ", "-", " ">>

\* "09h00 a 10h00 -X": the accented letter at index 6 and no space at the end
\* of the 16 characters.
TightPrefix ==
    <<"0", "9", "h", "0", "0", " ", AGrave, " ", "1", "0", "h", "0", "0", " ", "-", "X">>

\* The texts of a slot: "A / B", "X", and the empty one.
SlotTexts == {<<"A", " ", "/", " ", "B">>, <<"X">>, <<>>}

\* "09h00 a 10h00 - A101 / A102 - X - Mathematics - Vectors - Dr. Smith / Dr. Jones"
TitleVectors ==
    <<"0", "9", "h", "0", "0", " ", AGrave, " ", "1", "0", "h", "0", "0",
      " ", "-", " ", "A", "1", "0", "1", " ", "/", " ", "A", "1", "0", "2",
      " ", "-", " ", "X", " ", "-", " ", "M", "a", "t", "h", "e", "m", "a",
      "t", "i", "c", "s", " ", "-", " ", "V", "e", "c", "t", "o", "r", "s",
      " ", "-", " ", "D", "r", ".", " ", "S", "m", "i", "t", "h", " ", "/",
      " ", "D", "r", ".", " ", "J", "o", "n", "e", "s">>
\* "09h00 a 10h00 - A101 - X - Physics - Dr. Smith"
TitlePhysics ==
    <<"0", "9", "h", "0", "0", " ", AGrave, " ", "1", "0", "h", "0", "0",
      " ", "-", " ", "A", "1", "0", "1", " ", "-", " ", "X", " ", "-", " ",
      "P", "h", "y", "s", "i", "c", "s", " ", "-", " ", "D", "r", ".", " ",
      "S", "m", "i", "t", "h">>
\* "09h00 a": the accented letter is the last character.
TitleSevenChars == SubSeq(TimePrefix, 1, 7)

\* The titles parse_title is applied to: each prefix followed by up to
\* MaxSlots slots with " - " between them, and the titles above.
Titles ==
    {p \o Join(slots, Dash) :
        p \in {TimePrefix, TightPrefix, LillePrefix, OtherPrefix},
        slots \in SeqsUpTo(SlotTexts, MaxSlots)}
    \cup {TitleVectors, TitlePhysics, TitleSevenChars, TitleChapter,
          TitleLongChapter, TitleNoChapter, TitleLille, TitleOther, <<>>}

\* A title is handed to parse_title.
TitleInit ==
    /\ NewSession
    /\ schooling_id = SubmenuPrefix \o <<"1">>
    /\ parse_arg \in Titles
    /\ parse_ret = NotParsed
    /\ event_types = <<>>
    /\ kinds = <<>>

\* parse_title(title) runs.
ParseTitle ==
    /\ parse_ret = NotParsed
    /\ parse_ret' = parse_title(parse_arg)
    /\ UNCHANGED <<schooling_id, user_planning_id, groups_planning_id, heap,
                   nodes, view_state, form_id, frames, pc, sent, received,
                   returned, result, previous, parse_arg, event_types, kinds>>

TitleNext == ParseTitle

TitleSpec == TitleInit /\ [][TitleNext]_vars

\* ---------------------------------------------------------- map_kind alone
\* Calls of map_kind in one run.
MaxLabels == 3

\* enum EventKind
EventKinds ==
    {"Course", "Exam", "Leave", "Meeting", "PracticalWork", "SupervisedWork",
     "Project", "Other"}

\* The labels of the match arms of map_kind.
ArmLabels ==
    {<<"c", "o", "n", "g", "e", "s">>,
     <<"c", "m">>,
     <<"c", "o", "u", "r", "s">>,
     <<"e", "s", "t", "-", "e", "p", "r", "e", "u", "v", "e">>,
     <<"e", "v", "a", "l", "u", "a", "t", "i", "o", "n">>,
     <<"d", "s">>,
     <<"r", "e", "u", "n", "i", "o", "n">>,
     <<"t", "d">>,
     <<"c", "o", "u", "r", "s", "_", "t", "d">>,
     <<"t", "p">>,
     <<"p", "r", "o", "j", "e", "t">>}
\* The same in other letter cases.
CasedLabels ==
    {<<"C", "M">>,
     <<"C", "m">>,
     <<"D", "S">>,
     <<"T", "d">>,
     <<"T", "P">>,
     <<"C", "o", "u", "r", "s", "_", "T", "D">>}
\* Labels of no arm.
OtherLabels ==
    {<<>>,
     <<"c">>,
     <<"c", "m", "x">>,
     <<"x">>,
     <<"c", "o", "u", "r", "s", "_", "t", "p">>}
\* The labels map_kind is applied to.
Labels == ArmLabels \cup CasedLabels \cup OtherLabels

KindInit ==
    /\ NewSession
    /\ schooling_id = SubmenuPrefix \o <<"1">>
    /\ parse_arg = <<>>
    /\ parse_ret = NotParsed
    /\ event_types = <<>>
    /\ kinds = <<>>

\* map_kind(event_type) runs.
MapKind ==
    /\ Len(event_types) < MaxLabels
    /\ \E event_type \in Labels :
         /\ event_types' = Append(event_types, event_type)
         /\ kinds' = Append(kinds, map_kind(event_type))
    /\ UNCHANGED <<schooling_id, user_planning_id, groups_planning_id, heap,
                   nodes, view_state, form_id, frames, pc, sent, received,
                   returned, result, previous, parse_arg, parse_ret>>

KindNext == MapKind

KindSpec == KindInit /\ [][KindNext]_vars


\* =================================================================== claims
\* The ids of a list of node references.
NodeIds(refs) == [i \in 1..Len(refs) |-> heap[refs[i]].id]

\* The last completed call was fn and it ended as kind.
Ended(fn, kind) == pc = "returned" /\ result.fn = fn /\ result.kind = kind

\* C1: two consecutive successful get_menu_child_nodes calls on the same
\* known node that were answered with the same response return the same
\* list of child ids, and the map has exactly one entry per id of a node
\* that was ever registered.
C1_ExpandTwiceSameChildren ==
    (/\ Ended("get_menu_child_nodes", "Ok")
     /\ previous.kind = "Ok"
     /\ previous.received = result.received)
    => /\ NodeIds(result.value) = NodeIds(previous.value)
       /\ \A id \in DOMAIN nodes : heap[nodes[id]].id = id

\* C2: a step never removes an id from the map and never changes the node
\* registered under an id.
C2_NodesCreatedOnce ==
    [][\A id \in DOMAIN nodes : id \in DOMAIN nodes' /\ nodes'[id] = nodes[id]]_vars

\* C3: is_loaded(id) is false for an id that is not in the map; for an id in
\* the map it is true exactly when the id has the prefix "submenu_" and the
\* node has a child, or the id lacks the prefix and the node has no child.
C3_LoadedIsDerived ==
    \A id \in Ids :
        is_node_loaded(nodes, heap, id)
        <=> /\ id \in DOMAIN nodes
            /\ \/ (StartsWith(id, SubmenuPrefix) /\ Len(heap[nodes[id]].children) >= 1)
               \/ (~StartsWith(id, SubmenuPrefix) /\ Len(heap[nodes[id]].children) = 0)

\* C3 witness: an unknown id, a category node with a child and a category
\* node without, all at once.
C3_Witness ==
    /\ \E id \in Ids : id \notin DOMAIN nodes
    /\ \E id \in DOMAIN nodes :
         StartsWith(id, SubmenuPrefix) /\ heap[nodes[id]].children /= <<>>
    /\ \E id \in DOMAIN nodes :
         StartsWith(id, SubmenuPrefix) /\ heap[nodes[id]].children = <<>>


\* The step is the user's call fn(arg).
Calls(fn, arg) ==
    /\ pc = "idle"
    /\ \/ frames' /= <<>> /\ frames'[1].fn = fn /\ frames'[1].arg = arg
       \/ frames' = <<>> /\ result'.fn = fn /\ result'.arg = arg

\* C4: get_menu_child_nodes and get_class_groups called with an id that is
\* not in the map return the "not found" error at once, send no request and
\* leave the tree and the two tokens as they were.
C4_UnknownIdRejected ==
    [][\A id \in Ids : \A fn \in {"get_menu_child_nodes", "get_class_groups"} :
         (Calls(fn, id) /\ id \notin DOMAIN nodes)
         => /\ pc' = "returned"
            /\ result'.kind = "Err"
            /\ result'.err = "node not found"
            /\ sent' = <<>>
            /\ UNCHANGED <<heap, nodes, view_state, form_id>>]_vars

\* C4 witness: get_class_groups has just been refused for an unknown id, in
\* a session that holds both tokens and has discovered nodes.
C4_Witness ==
    /\ Ended("get_class_groups", "Err")
    /\ result.err = "node not found"
    /\ result.arg \notin DOMAIN nodes
    /\ sent = <<>>
    /\ ~IsNone(view_state)
    /\ ~IsNone(form_id)
    /\ Len(heap) > 2

\* C5: get_class_groups called with an id of the map whose node has the
\* prefix, has children or is not loaded returns a precondition error at once
\* and sends nothing; when it sends a request the node is a loaded leaf.
C5_ClassGroupsNeedsLoadedLeaf ==
    [][\A id \in DOMAIN nodes :
         Calls("get_class_groups", id)
         => LET n == heap[nodes[id]]
                leaf == ~StartsWith(n.id, SubmenuPrefix) /\ n.children = <<>>
                loaded == IF StartsWith(n.id, SubmenuPrefix)
                          THEN n.children /= <<>> ELSE n.children = <<>>
            IN  /\ (~leaf \/ ~loaded)
                   => /\ pc' = "returned"
                      /\ result'.kind = "Err"
                      /\ result'.err \in {"not a leaf node", "not loaded"}
                      /\ sent' = <<>>
                /\ sent' /= <<>> => (leaf /\ loaded)]_vars

\* C5 witness: get_class_groups has just been refused for a category node of
\* the tree that has children.
C5_Witness ==
    /\ Ended("get_class_groups", "Err")
    /\ result.err = "not a leaf node"
    /\ result.arg \in DOMAIN nodes
    /\ StartsWith(result.arg, SubmenuPrefix)
    /\ heap[nodes[result.arg]].children /= <<>>
    /\ sent = <<>>

\* C6: when the answer to the credentials POST has no location header, login
\* returns the "failed to login" error, sends no further request and leaves
\* view_state and form_id as they were.
C6_LoginWithoutRedirect ==
    [][(/\ pc = "login_post"
        /\ Len(received') = Len(received) + 1
        /\ received'[Len(received')].transport = "ok"
        /\ ~received'[Len(received')].location)
       => /\ pc' = "returned"
          /\ result'.fn = "login"
          /\ result'.kind = "Err"
          /\ result'.err = "failed to login"
          /\ sent' = sent
          /\ UNCHANGED <<view_state, form_id>>]_vars

\* C6 witness: a login has just failed for want of the location header in a
\* session that holds both tokens from an earlier login.
C6_Witness ==
    /\ Ended("login", "Err")
    /\ result.err = "failed to login"
    /\ Len(sent) = 1
    /\ ~IsNone(view_state)
    /\ ~IsNone(form_id)

\* C7: while view_state or form_id is None, no request to the main menu page
\* is sent: no form id stands in for a missing form_id and no view state for
\* a missing view_state.
C7_NoDefaultForMissingToken ==
    \A i \in 1..Len(sent) :
        sent[i].url = "main_menu_url"
        => /\ ~IsNone(view_state)
           /\ ~IsNone(sent[i].source) => ~IsNone(form_id)

\* The requests of get_user_schedule, by what they are.
IsExpansionOf(req, id) ==
    req.url = "main_menu_url" /\ ~IsNone(req.source) /\ req.menu_id = Some(id)
IsUserPriming(req) ==
    req.url = "main_menu_url" /\ IsNone(req.source) /\ req.menu_id = Some(user_planning_id)
IsPlanningGet(req) == req.url = "planning_url" /\ req.method = "GET"
IsSchedulePost(req) == req.url = "planning_url" /\ req.method = "POST"

\* The current or last top-level call is fn.
InCall(fn) ==
    \/ frames /= <<>> /\ frames[1].fn = fn
    \/ frames = <<>> /\ result.fn = fn

\* The requests of the current call are, in this order: at most one expansion
\* of the schooling root, the priming POST, the planning GET (only after a
\* priming answer with a location header), the schedule POST.
UserScheduleRequestOrder ==
    \A i \in 1..Len(sent) :
        \/ i = 1 /\ IsExpansionOf(sent[i], schooling_id)
        \/ /\ IsUserPriming(sent[i])
           /\ \A j \in 1..(i - 1) : IsExpansionOf(sent[j], schooling_id)
        \/ /\ IsPlanningGet(sent[i])
           /\ i > 1
           /\ IsUserPriming(sent[i - 1])
           /\ received[i - 1].transport = "ok"
           /\ received[i - 1].location
        \/ /\ IsSchedulePost(sent[i])
           /\ i > 1
           /\ IsPlanningGet(sent[i - 1])

\* C8: in get_user_schedule the requests go out in the order expansion of
\* the schooling root (at most one), priming POST, planning GET, schedule
\* POST; the planning GET follows a priming answer with a location header;
\* and while the priming POST is out the schooling root is loaded.
C8_UserScheduleOrder ==
    InCall("get_user_schedule")
    => /\ UserScheduleRequestOrder
       /\ pc = "user_post" => is_node_loaded(nodes, heap, schooling_id)

\* The answer to the schedule POST of the current call, if it has come.
ScheduleAnswers ==
    {k \in 1..Len(received) : IsSchedulePost(sent[k])}

\* What get_schedule returned in the current call.
ScheduleReturns ==
    {i \in 1..Len(returned) : returned[i].fn = "get_schedule"}

C10_BatchAllOrNothing ==
    \A k \in ScheduleAnswers :
        (/\ received[k].transport = "ok" /\ received[k].body
         /\ received[k].open /\ received[k].close /\ received[k].json)
        => LET batch == received[k].events
               failing == {j \in 1..Len(batch) : FromRawEvent[batch[j]].kind /= "Ok"}
           IN  /\ ScheduleReturns /= {}
               /\ \A i \in ScheduleReturns :
                    IF failing /= {}
                    THEN returned[i].kind = "Err" /\ returned[i].value = <<>>
                    ELSE /\ returned[i].kind = "Ok"
                         /\ Len(returned[i].value) = Len(batch)
                         /\ \A j \in 1..Len(batch) :
                              returned[i].value[j] = FromRawEvent[batch[j]].value

\* C11: a failure of a step (a function of the call returned Err) never
\* aborts the call: the call ends by returning that error to the user.
C11_ErrorsAreReturned ==
    \A i \in 1..Len(returned) :
        returned[i].kind = "Err"
        => /\ pc /= "aborted"
           /\ pc = "returned" => (result.kind = "Err" /\ result.err = returned[i].err)

\* The step receives the answer to the child-nodes POST, and that answer has
\* a body that lacks the opening or the closing marker of the sidebar
\* fragment.
ChildAnswerWithoutMarkers ==
    /\ pc = "child_post"
    /\ Len(received') = Len(received) + 1
    /\ LET resp == received'[Len(received')]
       IN  resp.transport = "ok" /\ resp.body /\ (~resp.open \/ ~resp.close)

\* C12: when the answer to the child-nodes POST lacks the opening or the
\* closing marker, get_menu_child_nodes returns the "invalid response" error
\* and the nodes and the index stay as they were.
C12_MissingSidebarMarkerIsError ==
    [][ChildAnswerWithoutMarkers
       => /\ UNCHANGED <<heap, nodes>>
          /\ Len(returned') > Len(returned)
          /\ returned'[Len(returned) + 1].fn = "get_menu_child_nodes"
          /\ returned'[Len(returned) + 1].kind = "Err"
          /\ returned'[Len(returned) + 1].err = "invalid response"]_vars

\* C13: every node in the child list of a node is the node the index holds
\* under its id, and its parent back-reference is the node in whose child
\* list it is.
C13_ChildrenAreRegistered ==
    \A p \in 1..Len(heap) :
        \A k \in 1..Len(heap[p].children) :
            LET child == heap[p].children[k]
            IN  /\ heap[child].id \in DOMAIN nodes
                /\ nodes[heap[child].id] = child
                /\ heap[child].parent = Some(p)

\* The menu is as Menu::new left it: no node has been discovered yet.
AsConstructed == Len(heap) = 2

\* The index holds two different root nodes under the schooling id and the
\* groups id, both without parent and children, and neither is loaded.
TwoUnloadedRoots ==
    /\ Cardinality(DOMAIN nodes) = 2
    /\ {schooling_id, groups_planning_id} \subseteq DOMAIN nodes
    /\ nodes[schooling_id] /= nodes[groups_planning_id]
    /\ \A id \in {schooling_id, groups_planning_id} :
         /\ heap[nodes[id]].id = id
         /\ heap[nodes[id]].parent = None
         /\ heap[nodes[id]].children = <<>>
         /\ ~is_node_loaded(nodes, heap, id)

\* C14 as stated: after construction, whatever the two ids are, the index
\* holds two different unloaded roots without parent and children.
C14_AnyIdsTwoUnloadedRoots == AsConstructed => TwoUnloadedRoots

\* C14 amended: after construction with two different ids that both have
\* the prefix "submenu_", the index holds two different unloaded roots
\* without parent and children.
C14_CategoryIdsTwoUnloadedRoots ==
    (/\ AsConstructed
     /\ schooling_id /= groups_planning_id
     /\ StartsWith(schooling_id, SubmenuPrefix)
     /\ StartsWith(groups_planning_id, SubmenuPrefix))
    => TwoUnloadedRoots

\* C14 witness: a menu just constructed with two different category ids.
C14_Witness ==
    /\ AsConstructed
    /\ schooling_id /= groups_planning_id
    /\ StartsWith(schooling_id, SubmenuPrefix)
    /\ StartsWith(groups_planning_id, SubmenuPrefix)
    /\ pc = "idle"
    /\ IsNone(view_state)

\* A node with the prefix "submenu_" in its id.
IsCategory(n) == StartsWith(n.id, SubmenuPrefix)

\* C15: a category node without children is not loaded; a step that adds
\* children to a category node (the first ones or further ones) leaves it
\* loaded; a node without the prefix and without children, such as a leaf
\* just created, is loaded.
C15_LoadedFlipsOnFirstChild ==
    /\ [](\A p \in 1..Len(heap) :
            /\ (IsCategory(heap[p]) /\ heap[p].children = <<>>) => ~is_loaded(heap[p])
            /\ (~IsCategory(heap[p]) /\ heap[p].children = <<>>) => is_loaded(heap[p]))
    /\ [][\A p \in 1..Len(heap) :
            (/\ IsCategory(heap[p])
             /\ Len(heap'[p].children) > Len(heap[p].children))
            => is_loaded(heap'[p])]_vars

\* C15 witness: a category node that got children twice and so has more
\* than one, and a leaf created by an expansion.
C15_Witness ==
    /\ \E p \in 1..Len(heap) :
         /\ IsCategory(heap[p])
         /\ Len(heap[p].children) >= 2
         /\ previous.kind = "Ok"
         /\ Len(previous.value) < Len(heap[p].children)
         /\ previous.value /= <<>>
    /\ \E p \in 3..Len(heap) : ~IsCategory(heap[p]) /\ heap[p].children = <<>>

\* The number of ids at the head of the list todo that the menu m, h reports
\* loaded: the iterations of load_menu_nodes that go on without a request.
LoadedPrefixLen(todo, m, h) ==
    CHOOSE k \in 0..Len(todo) :
        /\ \A i \in 1..k : is_node_loaded(m, h, todo[i])
        /\ k < Len(todo) => ~is_node_loaded(m, h, todo[k + 1])

\* The frames of load_menu_nodes on the stack fs.
LoadFrames(fs) == {k \in 1..Len(fs) : fs[k].fn = "load_menu_nodes"}

\* The step takes the answer to an expansion that load_menu_nodes asked for,
\* and get_menu_child_nodes returns Ok: the loop goes on.
LoadGoesOn ==
    /\ pc = "child_post"
    /\ LoadFrames(frames) /= {}
    /\ Len(returned') > Len(returned)
    /\ returned'[Len(returned) + 1].kind = "Ok"

\* The expansion requests that the step sends (a caller of load_menu_nodes
\* may send its own next request in the step in which the loop ends).
NewExpansions ==
    SelectSeq(SubSeq(sent', Len(sent) + 1, Len(sent')),
              LAMBDA r : r.url = "main_menu_url" /\ ~IsNone(r.source))

\* The step sends exactly one request, the expansion of id, and
\* load_menu_nodes is left with the ids after position k of todo.
OneExpansionSent(todo, k, id) ==
    /\ Len(sent') = Len(sent) + 1
    /\ SubSeq(sent', 1, Len(sent)) = sent
    /\ Len(NewExpansions) = 1
    /\ IsExpansionOf(NewExpansions[1], id)
    /\ pc' = "child_post"
    /\ \E f \in LoadFrames(frames') : frames'[f].todo = SubSeq(todo, k + 1, Len(todo))

\* The loop of load_menu_nodes run on the list todo, as C16 states it: the
\* loaded ids at its head get no request, the first id that is not loaded
\* gets one.
LoadTurnAsStated(todo) ==
    LET k == LoadedPrefixLen(todo, nodes', heap')
    IN  IF k = Len(todo) THEN NewExpansions = <<>>
        ELSE OneExpansionSent(todo, k + 1, todo[k + 1])

\* The same, with the case of an id that is not in the index: no request,
\* the call ends with the "not found" error.
LoadTurn(todo) ==
    LET k == LoadedPrefixLen(todo, nodes', heap')
    IN  IF k = Len(todo) THEN NewExpansions = <<>>
        ELSE IF todo[k + 1] \in DOMAIN nodes'
        THEN OneExpansionSent(todo, k + 1, todo[k + 1])
        ELSE /\ NewExpansions = <<>>
             /\ pc' = "returned"
             /\ result'.kind = "Err"
             /\ result'.err = "node not found"

\* C16 as stated: load_menu_nodes goes through the list in order, sends no
\* request for an id that is loaded when its turn comes and exactly one
\* expansion request for an id that is not.
C16_LoadSkipsLoaded ==
    [][/\ \A todo \in MenuNodeLists :
            Calls("load_menu_nodes", todo) => LoadTurnAsStated(todo)
       /\ LoadGoesOn
          => \A f \in LoadFrames(frames) : LoadTurnAsStated(frames[f].todo)]_vars

\* C16 amended: load_menu_nodes goes through the list in order, sends no
\* request for an id that is loaded when its turn comes and exactly one
\* expansion request for an id that is in the index and not loaded; for an
\* id that is not in the index it sends none and returns the error.
C16_LoadSkipsLoadedOrUnknown ==
    [][/\ \A todo \in MenuNodeLists :
            Calls("load_menu_nodes", todo) => LoadTurn(todo)
       /\ LoadGoesOn
          => \A f \in LoadFrames(frames) : LoadTurn(frames[f].todo)]_vars

\* C16 witness: load_menu_nodes has returned Ok for a list of two different
\* ids after one request, the expansion of the second: the first was loaded.
C16_Witness ==
    /\ Ended("load_menu_nodes", "Ok")
    /\ Len(result.arg) = 2
    /\ result.arg[1] /= result.arg[2]
    /\ Len(sent) = 1
    /\ IsExpansionOf(sent[1], result.arg[2])
    /\ is_node_loaded(nodes, heap, result.arg[1])
    /\ StartsWith(result.arg[1], SubmenuPrefix)

\* The segments of a title as the claims read it: the text after the 16
\* characters of the time prefix, split on " - ".
Segments(t) == Split(SubSeq(t, 17, Len(t)), Dash)

\* A title of the first form: the accented letter at index 6, then the rest
\* of the 16-character prefix.
IsOuestTitle(t) == Len(t) >= 16 /\ t[7] = AGrave

\* parse_title has been applied to t.
Parsed(t) == parse_arg = t /\ parse_ret /= NotParsed

\* C17: parse_title of the title "... - A101 / A102 - X - Mathematics -
\* Vectors - Dr. Smith / Dr. Jones" gives the rooms A101 and A102, the subject
\* Mathematics, the chapter Vectors and the participants Dr. Smith and
\* Dr. Jones; for every title of the first form with rooms, a second slot, a
\* subject, chapter segments and participants, the last segment gives the
\* participants and the segments between the subject and it the chapter.
C17_ChapterAndParticipants ==
    /\ Parsed(TitleVectors)
       => /\ parse_ret.kind = "Ok"
          /\ parse_ret.value.rooms = <<<<"A", "1", "0", "1">>, <<"A", "1", "0", "2">>>>
          /\ parse_ret.value.subject = SubSeq(TitleVectors, 35, 45)
          /\ parse_ret.value.chapter = Some(SubSeq(TitleVectors, 49, 55))
          /\ parse_ret.value.participants
               = <<SubSeq(TitleVectors, 59, 67), SubSeq(TitleVectors, 71, 79)>>
    /\ (/\ parse_ret /= NotParsed
        /\ IsOuestTitle(parse_arg)
        /\ Len(Segments(parse_arg)) >= 5
        /\ \A i \in 1..Len(Segments(parse_arg)) : Segments(parse_arg)[i] /= <<>>)
       => LET seg == Segments(parse_arg)
              n == Len(seg)
          IN  /\ parse_ret.kind = "Ok"
              /\ parse_ret.value.rooms = TrimmedParts(seg[1])
              /\ parse_ret.value.subject = seg[3]
              /\ parse_ret.value.chapter = Some(Join(SubSeq(seg, 4, n - 1), Dash))
              /\ parse_ret.value.participants = NonEmpty(TrimmedParts(seg[n]))

\* C18: parse_title of a title of the first form with rooms, a second slot,
\* a subject and participants and no chapter segment, such as "... - A101 -
\* X - Physics - Dr. Smith", succeeds without a chapter, with the third
\* segment as subject and the fourth as participants.
C18_NoChapter ==
    (/\ parse_ret /= NotParsed
     /\ IsOuestTitle(parse_arg)
     /\ Len(Segments(parse_arg)) = 4
     /\ \A i \in 1..4 : Segments(parse_arg)[i] /= <<>>)
    => /\ parse_ret.kind = "Ok"
       /\ parse_ret.value.chapter = None
       /\ parse_ret.value.subject = Segments(parse_arg)[3]
       /\ parse_ret.value.participants = NonEmpty(TrimmedParts(Segments(parse_arg)[4]))

\* C19: for a title whose character at index 6 is not the accented letter,
\* parse_title returns an error value and no record: an error of its own
\* when the character is '-', the unrecognized-format error for any other
\* character and for a title of fewer than 7 characters.
C19_OtherFormsAreErrors ==
    (/\ parse_ret /= NotParsed
     /\ ~(Len(parse_arg) >= 7 /\ parse_arg[7] = AGrave))
    => /\ parse_ret.kind = "Err"
       /\ ~(Len(parse_arg) >= 7 /\ parse_arg[7] = "-")
          => parse_ret.err = "The title is not of the form"

\* C20: for a title with the accented letter at index 6 whose text after the
\* 16-character prefix has no " - ", or fewer segments than rooms, second
\* slot, subject and participants take, parse_title returns an error value:
\* it does not abort and gives no record.
C20_MalformedIsError ==
    (/\ parse_ret /= NotParsed
     /\ Len(parse_arg) >= 7 /\ parse_arg[7] = AGrave
     /\ Len(Segments(parse_arg)) < 4)
    => parse_ret.kind = "Err"

\* Every label in lower case.
Lowered == EmptyMap @@ [l \in Labels |-> to_lowercase(l)]

\* The labels given so far that got the kind k, letter case set aside.
LabelsOfKind(k) ==
    {Lowered[event_types[i]] : i \in {j \in 1..Len(kinds) : kinds[j] = k}}

\* What every reading of C21 shares: map_kind gives a kind for every label,
\* the same kind for labels that differ only in letter case, Course for
\* "CM" and "cm", and Other for the labels outside the known set.
KindTotalAndCaseInsensitive ==
    /\ Len(kinds) = Len(event_types)
    /\ \A i \in 1..Len(kinds) :
         /\ kinds[i] \in EventKinds
         /\ event_types[i] \in {<<"C", "M">>, <<"c", "m">>} => kinds[i] = "Course"
         /\ Lowered[event_types[i]] \notin ArmLabels => kinds[i] = "Other"
         /\ \A j \in 1..Len(kinds) :
              Lowered[event_types[i]] = Lowered[event_types[j]]
              => kinds[i] = kinds[j]

\* C21 as stated: map_kind is total and case-insensitive, and the labels that
\* do not yield Other are one leave label, two course labels, two exam
\* labels, one meeting label, two supervised-work labels, one practical-work
\* label and one project label.
C21_KindsOfTenLabels ==
    /\ KindTotalAndCaseInsensitive
    /\ Cardinality(LabelsOfKind("Leave")) =< 1
    /\ Cardinality(LabelsOfKind("Course")) =< 2
    /\ Cardinality(LabelsOfKind("Exam")) =< 2
    /\ Cardinality(LabelsOfKind("Meeting")) =< 1
    /\ Cardinality(LabelsOfKind("SupervisedWork")) =< 2
    /\ Cardinality(LabelsOfKind("PracticalWork")) =< 1
    /\ Cardinality(LabelsOfKind("Project")) =< 1

\* C21 amended: map_kind is total and case-insensitive, and the labels that
\* do not yield Other are one leave label, two course labels, three exam
\* labels, one meeting label, two supervised-work labels, one practical-work
\* label and one project label.
C21_KindsOfElevenLabels ==
    /\ KindTotalAndCaseInsensitive
    /\ LabelsOfKind("Leave") \subseteq {<<"c", "o", "n", "g", "e", "s">>}
    /\ LabelsOfKind("Course") \subseteq {<<"c", "m">>, <<"c", "o", "u", "r", "s">>}
    /\ LabelsOfKind("Exam")
         \subseteq {<<"e", "s", "t", "-", "e", "p", "r", "e", "u", "v", "e">>,
                    <<"e", "v", "a", "l", "u", "a", "t", "i", "o", "n">>, <<"d", "s">>}
    /\ LabelsOfKind("Meeting") \subseteq {<<"r", "e", "u", "n", "i", "o", "n">>}
    /\ LabelsOfKind("SupervisedWork")
         \subseteq {<<"t", "d">>, <<"c", "o", "u", "r", "s", "_", "t", "d">>}
    /\ LabelsOfKind("PracticalWork") \subseteq {<<"t", "p">>}
    /\ LabelsOfKind("Project") \subseteq {<<"p", "r", "o", "j", "e", "t">>}
    /\ \A i \in 1..Len(kinds) :
         Lowered[event_types[i]] \in ArmLabels => kinds[i] /= "Other"

\* C21 witness: map_kind has been given "CM", "cm" and a label of no arm, and
\* gave Course twice and Other.
C21_Witness ==
    /\ event_types = <<<<"C", "M">>, <<"c", "m">>, <<"c", "m", "x">>>>
    /\ kinds = <<"Course", "Course", "Other">>

\* C22: loadedness is monotonic: an id that is_node_loaded reports loaded is
\* reported loaded after every later step, whatever is called and whatever
\* the server answers.
C22_LoadedStaysLoaded ==
    [][\A id \in DOMAIN nodes :
         is_node_loaded(nodes, heap, id) => is_node_loaded(nodes', heap', id)]_vars

\* C27: a node whose id lacks the category prefix has no children.
C27_LeafHasNoChildren ==
    \A p \in 1..Len(heap) : ~IsCategory(heap[p]) => heap[p].children = <<>>

\* The function the user called: the outermost frame, or the call that has
\* just ended.
CallFn == IF frames /= <<>> THEN frames[1].fn ELSE result.fn

\* The step of the protocol a request belongs to.
RequestStep(req) == <<req.method, req.url, IsNone(req.source)>>

\* Each request of the current call is sent once; load_menu_nodes sends at
\* most one per list entry whose turn has come.
EachRequestOnce ==
    /\ CallFn /= "load_menu_nodes"
       => \A i, j \in 1..Len(sent) :
            i /= j => RequestStep(sent[i]) /= RequestStep(sent[j])
    /\ (CallFn = "load_menu_nodes" /\ frames /= <<>>)
       => Len(sent) =< Len(frames[1].arg) - Len(frames[1].todo)
    /\ (CallFn = "load_menu_nodes" /\ frames = <<>>)
       => Len(sent) =< Len(result.arg)

\* The follow-up GET of login and of get_class_groups is the second request
\* and follows a POST answered with the location header.
GetOnlyAfterRedirect ==
    \A i \in 1..Len(sent) :
        (/\ CallFn \in {"login", "get_class_groups"}
         /\ sent[i].method = "GET")
        => /\ i = 2
           /\ sent[1].method = "POST"
           /\ received[1].transport = "ok"
           /\ received[1].location

\* The step is one in which a function returns an error or panics.
StepFails ==
    /\ pc \notin {"returned", "aborted"}
    /\ \/ pc' = "aborted"
       \/ /\ Len(returned') > Len(returned)
          /\ \E k \in (Len(returned) + 1)..Len(returned') : returned'[k].kind = "Err"

ChildAnswerWithFaultyItem ==
    /\ pc = "child_post"
    /\ Len(received') = Len(received) + 1
    /\ LET resp == received'[Len(received')]
       IN  /\ resp.transport = "ok" /\ resp.body /\ resp.open
           /\ \E i \in 1..Len(resp.items) : resp.items[i] \in FaultyItems

\* C24: when a list item of the fragment lacks the class attribute, the name
\* text, the " submenu_" token of a category item or the onclick menu id of a
\* leaf item, get_menu_child_nodes returns an error and the menu tree is as
\* before the call: no item of the fragment is added.
C24_FaultyItemIsError ==
    [][ChildAnswerWithFaultyItem
       => /\ UNCHANGED <<heap, nodes>>
          /\ Len(returned') > Len(returned)
          /\ returned'[Len(returned) + 1].fn = "get_menu_child_nodes"
          /\ returned'[Len(returned) + 1].kind = "Err"]_vars

\* The tokens a request carries are the ones it is meant to carry: the
\* schedule POST those of the planning page received just before it, an
\* expansion the session tokens (or their defaults), a priming POST the
\* session view state, any other request none.
RequestTokens ==
    \A i \in 1..Len(sent) :
        IF IsSchedulePost(sent[i])
        THEN /\ i > 1
             /\ IsPlanningGet(sent[i - 1])
             /\ sent[i].source = get_schedule_form_id(received[i - 1].text).value
             /\ sent[i].view_state = get_view_state(received[i - 1].text).value
        ELSE IF sent[i].url = "main_menu_url" /\ ~IsNone(sent[i].source)
        THEN /\ sent[i].source = Some(IF IsNone(form_id) THEN 0 ELSE Unwrap(form_id))
             /\ sent[i].view_state = Some(IF IsNone(view_state) THEN "" ELSE Unwrap(view_state))
        ELSE IF sent[i].url = "main_menu_url"
        THEN sent[i].view_state = view_state
        ELSE IsNone(sent[i].source) /\ IsNone(sent[i].view_state)

\* C25: view_state and form_id change only in the step of a login call that
\* takes the answer to its GET, which follows the redirect;
\* get_menu_child_nodes, load_menu_nodes, get_class_groups, get_schedule and
\* get_user_schedule leave them as they are, and the tokens get_schedule
\* reads from the planning page go into its schedule POST and nowhere else.
C25_TokensWrittenByLogin ==
    /\ [][(view_state' /= view_state \/ form_id' /= form_id)
          => /\ pc = "login_get"
             /\ CallFn = "login"
             /\ received[1].transport = "ok"
             /\ received[1].location]_vars
    /\ []RequestTokens

\* C25 witness: in a session that login gave the tokens "v1" and 7,
\* get_user_schedule has sent its schedule POST with the tokens "v2" and 9 of
\* the planning page.
C25_Witness ==
    /\ CallFn = "get_user_schedule"
    /\ view_state = Some("v1")
    /\ form_id = Some(7)
    /\ \E i \in 1..Len(sent) :
         /\ IsSchedulePost(sent[i])
         /\ sent[i].view_state = Some("v2")
         /\ sent[i].source = Some(9)

\* The slots of a title as C26 reads it: the text after the first 16
\* characters, cut before its last " - ", split on " - "; none when the
\* title is shorter or that text has no " - ".
SlotsOf(t) ==
    IF Len(t) < 16 \/ IsNone(RSplitOnce(SubSeq(t, 17, Len(t)), Dash)) THEN <<>>
    ELSE Split(Unwrap(RSplitOnce(SubSeq(t, 17, Len(t)), Dash))[1], Dash)

\* C26: for a title with the accented letter at index 6 whose text after the
\* 16-character prefix, cut before its last " - ", has n >= 4 slots,
\* parse_title gives the trimmed " / "-parts of slot 0 as rooms, slot 2 as
\* subject, the slots between slot 2 and the last one joined with " - " as
\* chapter (none when the join is empty after trimming), and the trimmed
\* non-empty " / "-parts of the last slot as participants.
C26_SlotsToFields ==
    (/\ parse_ret /= NotParsed
     /\ Len(parse_arg) >= 7 /\ parse_arg[7] = AGrave
     /\ Len(SlotsOf(parse_arg)) >= 4)
    => LET slots == SlotsOf(parse_arg)
           n == Len(slots)
           joined == Join(SubSeq(slots, 4, n - 1), Dash)
       IN  /\ parse_ret.kind = "Ok"
           /\ parse_ret.value.rooms = TrimmedParts(slots[1])
           /\ Len(parse_ret.value.rooms) >= 1
           /\ parse_ret.value.subject = slots[3]
           /\ parse_ret.value.chapter
                = (IF Trim(joined) = <<>> THEN None ELSE Some(joined))
           /\ parse_ret.value.participants = NonEmpty(TrimmedParts(slots[n]))

\* C28, first part: when get_menu_child_nodes(id) returns Ok for a node with
\* the category prefix, is_node_loaded(id) is true.
ExpandedIsLoaded ==
    (/\ Ended("get_menu_child_nodes", "Ok")
     /\ StartsWith(result.arg, SubmenuPrefix))
    => is_node_loaded(nodes, heap, result.arg)

\* C28, second part: when load_menu_nodes(ids) returns Ok, every listed id is
\* loaded.
LoadedAfterLoad ==
    Ended("load_menu_nodes", "Ok")
    => \A i \in 1..Len(result.arg) : is_node_loaded(nodes, heap, result.arg[i])

\* C28: a successful get_menu_child_nodes leaves a category node loaded,
\* hence a successful load_menu_nodes leaves every listed id loaded (and a
\* second call with the same ids has nothing to request).
C28_SuccessMeansLoaded == ExpandedIsLoaded /\ LoadedAfterLoad

====
